---- MODULE Spec2Model ----
(***************************************************************************)
(* Condor diffraction propagation engine (condor/experiment.py):           *)
(* the Experiment object with its single-slot qmap cache, the direct cache *)
(* accessors get_qmap / get_qmap_from_cache, the empty-interaction-volume  *)
(* retry loop _get_next_particles and the propagation call _propagate      *)
(* (propagate = 2-D, propagate3d = 3-D) with its four particle kernels.    *)
(*                                                                         *)
(* Numerical arrays are modelled at one representative pixel: a coordinate *)
(* field is the record of the arguments that determine it, a complex       *)
(* amplitude is a pair <<re, im>> of integers.                             *)
(***************************************************************************)
EXTENDS Integers, Sequences, FiniteSets, TLC

VARIABLES
    engine,   \* the constructed Experiment: particle models, source, detector
    cache,    \* Experiment._qmap_cache
    pc,       \* "idle" | "sampling" (inside _get_next_particles) | "returned"
    shot,     \* the propagation call in progress (ndim, D_source, misses)
    last,     \* what the last finished call did and returned
    computed, \* history: a field has been computed or registered on this engine
    unit      \* a constructor or function called outside a propagation: its
              \* name, its arguments and what it returned or raised

vars == <<engine, cache, pc, shot, last, computed, unit>>

----------------------------------------------------------------------------
(* Bounds of the model *)

\* largest rotation value; rotations are the points 0..MaxRot of a line
MaxRot == 2
\* most particle instances in the interaction volume in one sampling attempt
MaxParticles == 2
\* the miss counter of the retry loop saturates here
MaxMisses == 1

\* most query samples of a coordinate field handed to the map transform
MaxSamples == 2

\* most atoms of an atomic structure
MaxAtoms == 2

\* most particle models handed to a constructor of the engine
MaxModels == 2

----------------------------------------------------------------------------
(* Values *)

\* Python's None, and a Rotation object holding the value q
None == <<>>
Rot(q) == <<q>>
Rotations == {Rot(q) : q \in 0..MaxRot}

Orders == {"xyz", "zyx"}

\* Rotation.is_similar: equality of two rotations within a tolerance
is_similar(r1, r2) ==
    /\ r1 # None
    /\ r2 # None
    /\ (r1[1] - r2[1]) \in {-1, 0, 1}

\* the seven numeric key fields of a cache entry
GeomFields ==
    {"nx", "ny", "cx", "cy", "pixel_size", "detector_distance", "wavelength"}

KeyFields == GeomFields \cup {"extrinsic_rotation", "order"}

CacheFields == KeyFields \cup {"qmap"}

\* detector.get_next() and source.get_next() of the modelled set-up
DetGeom ==
    [nx |-> 4, ny |-> 4, cx |-> 2, cy |-> 2, pixel_size |-> 1,
     detector_distance |-> 7, wavelength |-> 1]

\* the same geometry with one numeric field changed
Deviate(f) == [DetGeom EXCEPT ![f] = @ + 1]

\* the arguments of one get_qmap call
Req(g, rot, order) ==
    [nx |-> g.nx, ny |-> g.ny, cx |-> g.cx, cy |-> g.cy,
     pixel_size |-> g.pixel_size, detector_distance |-> g.detector_distance,
     wavelength |-> g.wavelength, extrinsic_rotation |-> rot, order |-> order]

\* the get_qmap calls a caller makes in this model
Requests ==
    {Req(DetGeom, r, o) : r \in Rotations \cup {None}, o \in Orders}
    \cup {Req(Deviate(f), None, "xyz") : f \in GeomFields}

----------------------------------------------------------------------------
(* Coordinate fields *)

\* detector.generate_qmap(wavelength, cx, cy, extrinsic_rotation, order)
GenerateQmap(wavelength, cx, cy, rot, order) ==
    [gen |-> "generate_qmap", ndim |-> 2, wavelength |-> wavelength,
     cx |-> cx, cy |-> cy, rot |-> rot, order |-> order]

\* detector.generate_qmap_3d(wavelength, qn, qmax, extrinsic_rotation, order);
\* qn and qmax are functions of the detector and the wavelength
GenerateQmap3d(wavelength, rot, order) ==
    [gen |-> "generate_qmap_3d", ndim |-> 3, wavelength |-> wavelength,
     cx |-> DetGeom.cx, cy |-> DetGeom.cy, rot |-> rot, order |-> order]

\* the coordinate image the simulator returns with a diffraction pattern
SpsimQmap(ndim, g, rot) ==
    [gen |-> "spsim", ndim |-> ndim, wavelength |-> g.wavelength,
     cx |-> g.cx, cy |-> g.cy, rot |-> rot, order |-> "zyx"]

----------------------------------------------------------------------------
(* The qmap cache *)

EmptyCache == <<>>

\* the dictionary literal assigned to self._qmap_cache
Entry(field, req) ==
    [qmap |-> field, nx |-> req.nx, ny |-> req.ny, cx |-> req.cx,
     cy |-> req.cy, pixel_size |-> req.pixel_size,
     detector_distance |-> req.detector_distance,
     wavelength |-> req.wavelength,
     extrinsic_rotation |-> req.extrinsic_rotation, order |-> req.order]

\* get_qmap, lines 441-454: the value of `calculate`
Calculate(c, req) ==
    IF c = EmptyCache
    THEN TRUE
    ELSE \/ req.nx # c.nx
         \/ req.ny # c.ny
         \/ req.cx # c.cx
         \/ req.cy # c.cy
         \/ req.pixel_size # c.pixel_size
         \/ req.detector_distance # c.detector_distance
         \/ req.wavelength # c.wavelength
         \/ req.order # c.order
         \/ /\ req.extrinsic_rotation # None
            /\ ~is_similar(req.extrinsic_rotation, c.extrinsic_rotation)

\* get_qmap, lines 455-468: the cache after the call
\* get_qmap storing the new field into the entry it finds
QmapCacheAfterInPlace(c, req) ==
    IF Calculate(c, req)
    THEN IF c = EmptyCache
         THEN Entry(GenerateQmap(req.wavelength, req.cx, req.cy,
                                 req.extrinsic_rotation, req.order), req)
         ELSE [c EXCEPT !.qmap = GenerateQmap(req.wavelength, req.cx, req.cy,
                                    req.extrinsic_rotation, req.order)]
    ELSE c

QmapCacheAfter(c, req) ==
    IF Calculate(c, req)
    THEN Entry(GenerateQmap(req.wavelength, req.cx, req.cy,
                            req.extrinsic_rotation, req.order), req)
    ELSE c

----------------------------------------------------------------------------
(* Engine configurations *)

Kinds == {"sphere", "spheroid", "map", "atoms"}

\* the particle dictionaries of the modelled engines, in iteration order
ModelSets ==
    {<<"sphere", "spheroid">>, <<"spheroid", "map">>, <<"atoms", "map">>,
     <<"sphere", "atoms">>, <<>>}

\* the modelled engines: at most one of the three settings of detector and
\* source is off its default; the simulator installed is of any version, and
\* is looked at only by engines with an atoms model
Engines ==
    {e \in [models : ModelSets,
            solid_angle_correction : BOOLEAN,
            polarization : {"ignore", "vertical"},
            binning : {None, <<2>>},
            spsim_version_ok : BOOLEAN] :
        /\ Cardinality({x \in {"sac", "pol", "bin"} :
                CASE x = "sac" -> e.solid_angle_correction
                  [] x = "pol" -> e.polarization # "ignore"
                  [] OTHER -> e.binning # None}) <= 1
        /\ \/ e.spsim_version_ok
           \/ \E i \in DOMAIN e.models : e.models[i] = "atoms"}

NoShot == [ndim |-> 0, misses |-> 0, log |-> <<>>]
NoCall == [op |-> "none"]
NoUnit == [op |-> "none"]

Init ==
    /\ engine \in Engines
    /\ cache = EmptyCache
    /\ pc = "idle"
    /\ shot = NoShot
    /\ last = NoCall
    /\ computed = FALSE
    /\ unit = NoUnit

----------------------------------------------------------------------------
(* get_qmap and get_qmap_from_cache called by a user of the engine *)

\* Experiment.get_qmap; generate_qmap may raise, and then the dictionary
\* literal is never built and the assignment never happens
GetQmapDone(req, calc, raised, c1) ==
    /\ cache' = c1
    /\ last' = [op |-> "get_qmap", req |-> req,
                outcome |-> IF raised THEN "raised" ELSE "returned",
                generated |-> calc,
                value |-> IF raised THEN None ELSE c1.qmap]
    /\ computed' = (computed \/ (calc /\ ~raised))
    /\ pc' = "returned"
    /\ UNCHANGED <<engine, shot, unit>>

GetQmapCall(req, generator_raises) ==
    GetQmapDone(req, Calculate(cache, req),
                Calculate(cache, req) /\ generator_raises,
                IF Calculate(cache, req) /\ generator_raises
                THEN cache
                ELSE QmapCacheAfter(cache, req))

GetQmap ==
    /\ pc = "idle"
    /\ \E req \in Requests, g \in BOOLEAN : GetQmapCall(req, g)

\* get_qmap_from_cache computing a field when it finds none
GetQmapFromCacheOrCompute ==
    /\ pc = "idle"
    /\ cache' = IF cache = EmptyCache
                THEN QmapCacheAfter(cache, Req(DetGeom, None, "xyz"))
                ELSE cache
    /\ last' = [op |-> "get_qmap_from_cache",
                outcome |-> "returned",
                generated |-> cache = EmptyCache,
                value |-> cache'.qmap]
    /\ pc' = "returned"
    /\ UNCHANGED <<engine, shot, computed, unit>>

\* Experiment.get_qmap_from_cache
GetQmapFromCache ==
    /\ pc = "idle"
    /\ last' = [op |-> "get_qmap_from_cache",
                outcome |-> IF cache = EmptyCache \/ "qmap" \notin DOMAIN cache
                            THEN "raised" ELSE "returned",
                generated |-> FALSE,
                value |-> IF cache = EmptyCache \/ "qmap" \notin DOMAIN cache
                          THEN None ELSE cache.qmap]
    /\ pc' = "returned"
    /\ UNCHANGED <<engine, cache, shot, computed, unit>>

\* the caller has taken the result (or the exception) of the finished call
Return ==
    /\ pc = "returned"
    /\ pc' = "idle"
    /\ last' = NoCall
    /\ UNCHANGED <<engine, cache, shot, computed, unit>>

----------------------------------------------------------------------------
(* Complex amplitudes at the representative pixel *)

CAdd(a, b) == <<a[1] + b[1], a[2] + b[2]>>
CMul(a, b) == <<a[1] * b[1] - a[2] * b[2], a[1] * b[2] + a[2] * b[1]>>
CScale(k, a) == <<k * a[1], k * a[2]>>
\* abs(F)**2
Abs2(a) == a[1] * a[1] + a[2] * a[2]

\* numpy.exp(-1.j * k * pi/2)
ExpQuarterTurns(k) ==
    CASE k % 4 = 0 -> <<1, 0>>
      [] k % 4 = 1 -> <<0, -1>>
      [] k % 4 = 2 -> <<-1, 0>>
      [] OTHER -> <<0, 1>>

----------------------------------------------------------------------------
(* The numerical collaborators, as codes of the arguments they read *)

RotCode(r) == IF r = None THEN 0 ELSE r[1] + 1

\* what a kernel that reads the vector components of a field sees of it
FieldCode(f) ==
    1 + RotCode(f.rot) + 5 * (IF f.order = "zyx" THEN 1 ELSE 0)
      + 10 * (IF f.gen = "spsim" THEN 1 ELSE 0) + 20 * (f.ndim - 2)

\* what a kernel that reads only the length |q| of a field sees of it
NormCode(f) == 1 + f.wavelength + 20 * (f.ndim - 2)

\* sqrt(Omega_p): get_all_pixel_solid_angles or pixel_size**2/distance**2
SqrtOmega(e) == IF e.solid_angle_correction THEN 2 ELSE 1

\* sqrt(P) of detector.calculate_polarization_factors
SqrtP(polarization) == IF polarization = "ignore" THEN 1 ELSE 2

\* v . qmap0 at the pixel, in quarter turns
PhaseTurns(pos, qmap0) == pos * FieldCode(qmap0)

\* F_sphere_diffraction(K, q, R) * sqrt(Omega_p)
SphereF(e, p, field) == CScale(SqrtOmega(e), <<NormCode(field), 0>>)

\* F_spheroid_diffraction(K, qx, qy, a, c, theta, phi) * sqrt(Omega_p)
SpheroidF(e, p, field) ==
    CScale(SqrtOmega(e), <<FieldCode(field) + 3 * RotCode(p.rot), 0>>)

\* F0 * nfft(map3d_dn, qmap_shaped) * dx**3 * sqrt(Omega_p)
MapF(e, p, field) == CScale(SqrtOmega(e), <<1, FieldCode(field)>>)

\* sqrt(abs(phot_img)) * exp(1j * angle(F_img)) of the simulated shot
AtomsF(ndim, p) == <<RotCode(p.rot), 1 + ndim>>

----------------------------------------------------------------------------
(* _get_next_particles *)

\* "particle_%02i" % i
Key(i) == "particle_" \o (IF i < 10 THEN "0" ELSE "") \o ToString(i)

\* D[k] = v on a dictionary
Put(D, k, v) == [x \in DOMAIN D \cup {k} |-> IF x = k THEN v ELSE D[x]]

\* what p.get_next() can return: orientation and position of one instance
Attrs == [rot : {Rot(0), Rot(MaxRot)}, pos : {0, 1}]

\* p.get_next() of the model at place m of the particle dictionary
Instance(models, m, a) ==
    [kind |-> models[m], model |-> m, rot |-> a.rot, pos |-> a.pos]

\* the index left where it was
NextIndexStuck(i) == i

\* line 163: i += 1
NextIndex(i) == i + 1

\* lines 161-163: the n instances of one model
RECURSIVE AddInstances(_, _, _, _, _)
AddInstances(models, m, n, attrs, st) ==
    IF n = 0
    THEN st
    ELSE AddInstances(models, m, n - 1, attrs,
             [D |-> Put(st.D, Key(st.i),
                        Instance(models, m, attrs[st.calls + 1])),
              i |-> NextIndex(st.i),
              calls |-> st.calls + 1])

\* lines 158-163: one pass over the particle models
RECURSIVE AddModels(_, _, _, _, _)
AddModels(models, m, counts, attrs, st) ==
    IF m > Len(models)
    THEN st
    ELSE AddModels(models, m + 1, counts, attrs,
                   AddInstances(models, m, counts[m], attrs, st))

\* one iteration of the while loop, begun with D_particles empty
SampleParticles(models, counts, attrs) ==
    AddModels(models, 1, counts, attrs,
              [D |-> <<>>, i |-> 0, calls |-> 0]).D

RECURSIVE SumTo(_, _)
SumTo(f, n) == IF n = 0 THEN 0 ELSE f[n] + SumTo(f, n - 1)

\* what the models can report and return in one attempt
Samples(models) ==
    UNION {
        {[counts |-> c, attrs |-> a] :
            a \in [1..SumTo(c, Len(models)) -> Attrs]} :
        c \in {k \in [1..Len(models) -> 0..MaxParticles] :
                  SumTo(k, Len(models)) <= MaxParticles}}

----------------------------------------------------------------------------
(* _propagate *)

Ndims == {1, 2, 3}

ShotReq(rot, order) == Req(DetGeom, rot, order)

\* the phase factor taken on the field rotated with the particle
PhaseShiftedRotated(p, qmap0, F) ==
    IF p.pos # 0
    THEN CMul(F, ExpQuarterTurns(
                    PhaseTurns(p.pos, [qmap0 EXCEPT !.rot = p.rot])))
    ELSE F

\* lines 375-381: the phase factor of an off-centre particle
PhaseShifted(p, qmap0, F) ==
    IF p.pos # 0
    THEN CMul(F, ExpQuarterTurns(PhaseTurns(p.pos, qmap0)))
    ELSE F

\* F_tot = F
SuperimposeLast(F_tot, F) == F

\* line 383: F_tot = F_tot + F
Superimpose(F_tot, F) == CAdd(F_tot, F)

\* what one kernel hands back: the error it raised, or the cache it left, the
\* field it computed on and its amplitude
Raises(err, c) ==
    [err |-> err, cache |-> c, qmap |-> None, F |-> <<0, 0>>, spsim |-> 0,
     files |-> 0,
     generated |-> FALSE]

Amplitude(kind, e, p, field) ==
    CASE kind = "sphere" -> SphereF(e, p, field)
      [] kind = "spheroid" -> SpheroidF(e, p, field)
      [] OTHER -> MapF(e, p, field)

KernelOn(kind, e, p, c1, field, generated) ==
    [err |-> "", cache |-> c1, qmap |-> field,
     F |-> Amplitude(kind, e, p, field), spsim |-> 0, files |-> 0,
     generated |-> generated]

\* a kernel that takes its field from self.get_qmap(...)
KernelOnGetQmap(kind, e, p, c, req) ==
    KernelOn(kind, e, p, QmapCacheAfter(c, req),
             QmapCacheAfter(c, req).qmap, Calculate(c, req))

\* lines 234-248
SphereKernel(e, ndim, p, qmap0, c) ==
    IF ndim = 2
    THEN KernelOnGetQmap("sphere", e, p, c, ShotReq(None, "xyz"))
    ELSE KernelOn("sphere", e, p, c, qmap0, FALSE)

\* lines 251-275
SpheroidKernel(e, ndim, p, c) ==
    IF ndim = 3
    THEN Raises("spheroid3d", c)
    ELSE KernelOnGetQmap("spheroid", e, p, c, ShotReq(None, "xyz"))

\* lines 278-315
MapKernel(e, ndim, p, c) ==
    IF ndim = 2
    THEN KernelOnGetQmap("map", e, p, c, ShotReq(p.rot, "zyx"))
    ELSE KernelOn("map", e, p, c,
                  GenerateQmap3d(DetGeom.wavelength, p.rot, "zyx"), FALSE)

\* lines 329 and 334: spsim.confout and mol.pdbout, written for every shot
SpsimFiles == 2

\* the simulator's image registered under the default axis order
RegisterQmapXyz(field, req) == Entry(field, [req EXCEPT !.order = "xyz"])

\* lines 353-364: the simulator's coordinate image goes into the cache
RegisterQmap(field, req) == Entry(field, req)

\* the atoms kernel without its check of the simulator's version
AtomsKernelUnchecked(e, ndim, p, c) ==
    [err |-> "",
     cache |-> RegisterQmap(SpsimQmap(ndim, DetGeom, p.rot),
                            ShotReq(p.rot, "zyx")),
     qmap |-> SpsimQmap(ndim, DetGeom, p.rot),
     F |-> AtomsF(ndim, p), spsim |-> 1, files |-> SpsimFiles,
     generated |-> FALSE]

\* lines 318-367
AtomsKernel(e, ndim, p, c) ==
    IF ~e.spsim_version_ok
    THEN Raises("spsim_version", c)
    ELSE [err |-> "",
          cache |-> RegisterQmap(SpsimQmap(ndim, DetGeom, p.rot),
                                 ShotReq(p.rot, "zyx")),
          qmap |-> SpsimQmap(ndim, DetGeom, p.rot),
          F |-> AtomsF(ndim, p), spsim |-> 1, files |-> SpsimFiles,
          generated |-> FALSE]

\* the kernel of one particle instance, chosen by its class (lines 226-370)
Kernel(e, ndim, p, qmap0, c) ==
    CASE p.kind = "sphere" -> SphereKernel(e, ndim, p, qmap0, c)
      [] p.kind = "spheroid" -> SpheroidKernel(e, ndim, p, c)
      [] p.kind = "map" -> MapKernel(e, ndim, p, c)
      [] OTHER -> AtomsKernel(e, ndim, p, c)

\* lines 372-383 for the kernel result k of the instance p stored under key
Accumulate(acc, key, p, qmap0, k) ==
    IF k.err # ""
    THEN [acc EXCEPT !.err = k.err]
    ELSE [err |-> "",
          cache |-> k.cache,
          F_tot |-> Superimpose(acc.F_tot, PhaseShifted(p, qmap0, k.F)),
          steps |-> Append(acc.steps,
                     [key |-> key, kind |-> p.kind, qmap |-> k.qmap,
                      generated |-> k.generated,
                      F |-> PhaseShifted(p, qmap0, k.F)]),
          spsim_shots |-> acc.spsim_shots + k.spsim,
          spsim_files |-> acc.spsim_files + k.files]

\* one pass of the loop over D_particles.items(), lines 213-383
LoopBody(e, ndim, D, qmap0, key, acc) ==
    Accumulate(acc, key, D[key], qmap0,
               Kernel(e, ndim, D[key], qmap0, acc.cache))

RECURSIVE Loop(_, _, _, _, _, _)
Loop(e, ndim, D, qmap0, keys, acc) ==
    IF keys = <<>> \/ acc.err # ""
    THEN acc
    ELSE Loop(e, ndim, D, qmap0, Tail(keys),
              LoopBody(e, ndim, D, qmap0, Head(keys), acc))

\* D_particles.items() in insertion order
ItemOrder(D) == [i \in 1..Cardinality(DOMAIN D) |-> Key(i - 1)]

\* lines 199-205: the field without rotation
Qmap0(ndim) ==
    IF ndim = 2
    THEN GenerateQmap(DetGeom.wavelength, DetGeom.cx, DetGeom.cy, None, "xyz")
    ELSE GenerateQmap3d(DetGeom.wavelength, None, "xyz")

\* lines 206-383: the check of the solid angle correction, then the loop
LoopOrAbort(e, c, ndim, D, keys) ==
    IF ndim = 3 /\ e.solid_angle_correction
    THEN [err |-> "solid_angle3d", cache |-> c, F_tot |-> <<0, 0>>,
          steps |-> <<>>, spsim_shots |-> 0, spsim_files |-> 0]
    ELSE Loop(e, ndim, D, Qmap0(ndim), keys,
              [err |-> "", cache |-> c, F_tot |-> <<0, 0>>,
               steps |-> <<>>, spsim_shots |-> 0, spsim_files |-> 0])

\* lines 385-431: the error the call ends with after the loop left acc; in
\* 3-D FXxX_tot is read at line 427 and was never assigned
ShotError(e, ndim, acc) ==
    IF acc.err # ""
    THEN acc.err
    ELSE IF ndim = 3 /\ e.polarization # "ignore"
         THEN "polarization3d"
         ELSE IF ndim = 3 /\ e.binning # None
              THEN "UnboundLocalError"
              ELSE ""

\* lines 386-393: F_tot = numpy.sqrt(P) * F_tot
Polarized(e, ndim, F_tot) ==
    CScale(IF ndim = 2 THEN SqrtP(e.polarization) ELSE 1, F_tot)

\* line 396: the argument of detector.detect_photons
DetectInput(F_tot) == Abs2(F_tot)

ShotResult(e, ndim, acc, err) ==
    [outcome |-> IF err = "" THEN "returned" ELSE "raised",
     error |-> err,
     cache |-> acc.cache,
     steps |-> acc.steps,
     spsim_shots |-> acc.spsim_shots,
     spsim_files |-> acc.spsim_files,
     F_tot |-> IF err = "" THEN Polarized(e, ndim, acc.F_tot) ELSE <<0, 0>>,
     detect_input |-> IF err \in {"", "UnboundLocalError"}
                      THEN DetectInput(Polarized(e, ndim, acc.F_tot))
                      ELSE 0,
     data_2 |-> err = "" /\ e.binning # None]

Conclude(e, ndim, acc) == ShotResult(e, ndim, acc, ShotError(e, ndim, acc))

\* _propagate from line 188 on, for the particle set D met in the order keys
PropagateFrom(e, c, ndim, D, keys) ==
    Conclude(e, ndim, LoopOrAbort(e, c, ndim, D, keys))

\* _propagate with source.get_next() ahead of the check of ndim
PropagateCallSourceFirst(ndim) ==
    /\ IF ndim \notin {2, 3}
       THEN /\ pc' = "returned"
            /\ shot' = NoShot
            /\ last' = [op |-> "propagate", ndim |-> ndim,
                        outcome |-> "raised", error |-> "ndim",
                        log |-> <<"source.get_next">>, misses |-> 0,
                        counts |-> <<>>, particles |-> <<>>, steps |-> <<>>,
                        spsim_shots |-> 0, spsim_files |-> 0,
                        F_tot |-> <<0, 0>>,
                        detect_input |-> 0, data_2 |-> FALSE]
       ELSE /\ pc' = "sampling"
            /\ shot' = [ndim |-> ndim, misses |-> 0,
                        log |-> <<"source.get_next">>]
            /\ last' = last
    /\ UNCHANGED <<engine, cache, computed, unit>>

\* _propagate, lines 180-187: the check of ndim, then source.get_next()
PropagateCall(ndim) ==
    /\ IF ndim \notin {2, 3}
       THEN /\ pc' = "returned"
            /\ shot' = NoShot
            /\ last' = [op |-> "propagate", ndim |-> ndim,
                        outcome |-> "raised", error |-> "ndim",
                        log |-> <<>>, misses |-> 0,
                        counts |-> <<>>, particles |-> <<>>, steps |-> <<>>,
                        spsim_shots |-> 0, spsim_files |-> 0,
                        F_tot |-> <<0, 0>>,
                        detect_input |-> 0, data_2 |-> FALSE]
       ELSE /\ pc' = "sampling"
            /\ shot' = [ndim |-> ndim, misses |-> 0,
                        log |-> <<"source.get_next">>]
            /\ last' = last
    /\ UNCHANGED <<engine, cache, computed, unit>>

PropagateStart ==
    /\ pc = "idle"
    /\ \E ndim \in Ndims : PropagateCall(ndim)

\* the retry loop with a cap: it raises after MaxMisses attempts without particles
MissGivesUp ==
    /\ pc = "sampling"
    /\ IF shot.misses < MaxMisses
       THEN /\ shot' = [shot EXCEPT !.misses = @ + 1]
            /\ UNCHANGED <<pc, last>>
       ELSE /\ pc' = "returned"
            /\ shot' = NoShot
            /\ last' = [op |-> "propagate", ndim |-> shot.ndim,
                        outcome |-> "raised", error |-> "no particles",
                        log |-> shot.log, misses |-> shot.misses,
                        counts |-> [m \in DOMAIN engine.models |-> 0],
                        particles |-> <<>>, steps |-> <<>>,
                        spsim_shots |-> 0, spsim_files |-> 0,
                        F_tot |-> <<0, 0>>,
                        detect_input |-> 0, data_2 |-> FALSE]
    /\ UNCHANGED <<engine, cache, computed, unit>>

\* the retry loop sampling the source again with the particle models
MissResamplesSource ==
    /\ pc = "sampling"
    /\ shot' = [shot EXCEPT
                  !.misses = IF @ < MaxMisses THEN @ + 1 ELSE MaxMisses,
                  !.log = Append(@, "source.get_next")]
    /\ UNCHANGED <<engine, cache, pc, last, computed, unit>>

\* _get_next_particles: an attempt in which every model reports no particle
Miss ==
    /\ pc = "sampling"
    /\ shot' = [shot EXCEPT
                  !.misses = IF @ < MaxMisses THEN @ + 1 ELSE MaxMisses]
    /\ UNCHANGED <<engine, cache, pc, last, computed, unit>>

\* what the call leaves behind when it ends with r for the particle set D
ShotDone(counts, D, r) ==
    /\ cache' = r.cache
    /\ last' = [op |-> "propagate", ndim |-> shot.ndim,
                outcome |-> r.outcome, error |-> r.error,
                log |-> shot.log \o <<"particles.get_next",
                                      "detector.get_next">>,
                misses |-> shot.misses,
                counts |-> counts, particles |-> D, steps |-> r.steps,
                spsim_shots |-> r.spsim_shots,
                spsim_files |-> r.spsim_files, F_tot |-> r.F_tot,
                detect_input |-> r.detect_input, data_2 |-> r.data_2]
    /\ computed' = (computed \/ \E i \in DOMAIN r.steps :
                        r.steps[i].generated \/ r.steps[i].kind = "atoms")
    /\ pc' = "returned"
    /\ shot' = NoShot
    /\ UNCHANGED <<engine, unit>>

ShotOn(counts, D) ==
    ShotDone(counts, D, PropagateFrom(engine, cache, shot.ndim, D, ItemOrder(D)))

\* the attempt that finds particles, and the rest of _propagate
PropagateShot(counts, attrs) ==
    /\ SumTo(counts, Len(engine.models)) > 0
    /\ ShotOn(counts, SampleParticles(engine.models, counts, attrs))

PropagateRest ==
    /\ pc = "sampling"
    /\ \E s \in Samples(engine.models) : PropagateShot(s.counts, s.attrs)

Next ==
    \/ GetQmap
    \/ GetQmapFromCache
    \/ PropagateStart
    \/ Miss
    \/ PropagateRest
    \/ Return

Spec == Init /\ [][Next]_vars

\* one propagation call on a freshly constructed engine, under the assumption
\* of the retry loop that an attempt which finds particles comes in the end
NextShot ==
    \/ PropagateStart
    \/ Miss
    \/ PropagateRest

\* the step of PropagateRest seen from the loop: every engine with a particle
\* model can take it in every attempt, and it ends the loop
FoundParticles ==
    /\ pc = "sampling"
    /\ engine.models # <<>>
    /\ pc' = "returned"

FairShot == Init /\ [][NextShot]_vars /\ WF_pc(FoundParticles)

\* one propagation of an engine whose cache is empty, whatever the scheduling
OneShot == Init /\ [][NextShot]_vars

----------------------------------------------------------------------------
(* Functions and constructors called on their own *)

\* no engine has been constructed
NoEngine == <<>>

\* numpy.nan
NaN == "nan"

\* 0.5, the bound of the transform's input range, in quarters
Half == 2

\* the components of a sample of the coordinate field, in units of
\* 2*pi/4 per unit of dx, and the voxel sizes dx
QComponents == {-2, 0, 1}
QSamples == [1..3 -> QComponents]
VoxelSizes == {1, 2, 3}

\* line 294: dx * qmap / (2. * numpy.pi), one sample, in quarters
QmapScaled(q, dx) == [i \in 1..3 |-> dx * q[i]]

\* line 297: ~((qmap_shaped >= -0.5) * (qmap_shaped < 0.5)), one sample
InvalidMask(v) == [i \in 1..3 |-> ~(v[i] >= -Half /\ v[i] < Half)]

\* line 299: qmap_shaped[invalid_mask] = 0., one sample
Zeroed(v) == [i \in 1..3 |-> IF InvalidMask(v)[i] THEN 0 ELSE v[i]]

\* condor.utils.nfft.nfft at one sample, as a code of the sample it is given
Nfft(v) == <<1 + (v[1] + Half) + 4 * (v[2] + Half), v[3]>>

\* the rows flagged as soon as any sample of the field is invalid
PatternAtAnyRow(qs, k) ==
    IF \E j \in DOMAIN qs, i \in 1..3 : InvalidMask(qs[j])[i]
    THEN NaN
    ELSE Nfft(Zeroed(qs[k]))

\* lines 297-311 for the sample at place k of the scaled field qs: the
\* transform of the zeroed sample, NaN in the rows invalid_mask.any(axis=1)
PatternAt(qs, k) ==
    IF (\E j \in DOMAIN qs, i \in 1..3 : InvalidMask(qs[j])[i])
       /\ (\E i \in 1..3 : InvalidMask(qs[k])[i])
    THEN NaN
    ELSE Nfft(Zeroed(qs[k]))

\* line 315: F0 * fourier_pattern * dx**3 * numpy.sqrt(Omega_p)
ScaledPattern(x, dx) == IF x = NaN THEN NaN ELSE CScale(dx * dx * dx, x)

\* lines 294-315 of the map kernel for the field qmap and the voxel size dx
MapPattern(qmap, dx) ==
    [outcome |-> "returned",
     nfft_input |-> [k \in DOMAIN qmap |-> Zeroed(QmapScaled(qmap[k], dx))],
     F |-> [k \in DOMAIN qmap |->
              ScaledPattern(
                  PatternAt([j \in DOMAIN qmap |-> QmapScaled(qmap[j], dx)], k),
                  dx)]]

MapPatternCalls ==
    {[op |-> "map_pattern", qmap |-> q, dx |-> dx, out |-> None] :
        q \in UNION {[1..n -> QSamples] : n \in 1..MaxSamples},
        dx \in VoxelSizes}

MapPatternCall ==
    /\ pc = "call"
    /\ unit.op = "map_pattern"
    /\ unit' = [unit EXCEPT !.out = MapPattern(unit.qmap, unit.dx)]
    /\ pc' = "done"
    /\ UNCHANGED <<engine, cache, shot, last, computed>>

\* what "import spsim" finds: no module, or a module and its __version__
\* (None when it has none)
SpsimMin == <<0, 1, 0>>
Missing == <<"missing">>
SpsimInstalls == {Missing, None, <<0, 0, 9>>, SpsimMin, <<0, 2, 0>>}

\* StrictVersion(a) < StrictVersion(b)
VersionLess(a, b) ==
    \/ a[1] < b[1]
    \/ a[1] = b[1] /\ a[2] < b[2]
    \/ a[1] = b[1] /\ a[2] = b[2] /\ a[3] < b[3]

\* lines 322-326 of experiment.py: the negation of the condition that raises
VersionOk(v) == ~(v = None \/ VersionLess(v, SpsimMin))

\* the arrays a ParticleAtoms is made of, of one atom at least: atomic
\* numbers, positions and the nine form factor coefficients of an atom (here
\* the first of them)
AtomicNumbers == UNION {[1..n -> {1, 6}] : n \in 1..MaxAtoms}
Positions == {<<0, 0, 0>>, <<2, 0, 0>>}
AtomicPositions == UNION {[1..n -> Positions] : n \in 1..MaxAtoms}
AtomicFormfactors == UNION {[1..n -> {<<5>>}] : n \in 1..MaxAtoms}

\* a ParticleAtoms whose __init__ has returned
AtomsObject(numbers, positions, formfactors) ==
    [outcome |-> "returned",
     _atomic_numbers |-> numbers,
     _atomic_positions |-> positions,
     _atomic_formfactors |-> formfactors,
     _diameter_mean |-> None]

Raised(error) == [outcome |-> "raised", error |-> error]

\* lines 173-187
set_atoms_from_arrays(numbers, positions) ==
    IF Len(numbers) # Len(positions)
    THEN Raised("length")
    ELSE AtomsObject(numbers, positions, None)

\* lines 189-207
set_atoms_from_arrays_and_formfactors(numbers, positions, formfactors) ==
    IF Len(numbers) # Len(positions) \/ Len(numbers) # Len(formfactors)
    THEN Raised("length")
    ELSE AtomsObject(numbers, positions, formfactors)

\* ParticleAtoms.__init__, lines 82-129, called with arrays
ParticleAtomsInit(a) ==
    IF a.spsim = Missing
    THEN Raised("import spsim")
    ELSE IF a.atomic_numbers # None /\ a.atomic_positions # None
         THEN IF a.atomic_formfactors = None
              THEN set_atoms_from_arrays(a.atomic_numbers, a.atomic_positions)
              ELSE set_atoms_from_arrays_and_formfactors(
                       a.atomic_numbers, a.atomic_positions,
                       a.atomic_formfactors)
         ELSE Raised("unspecified")

ParticleAtomsCalls ==
    {[op |-> "ParticleAtoms", spsim |-> v, atomic_numbers |-> z,
      atomic_positions |-> r, atomic_formfactors |-> f, out |-> None] :
        v \in SpsimInstalls,
        z \in AtomicNumbers \cup {None},
        r \in AtomicPositions \cup {None},
        f \in AtomicFormfactors \cup {None}}

NewParticleAtoms ==
    /\ pc = "call"
    /\ unit.op = "ParticleAtoms"
    /\ unit' = [unit EXCEPT !.out = ParticleAtomsInit(unit)]
    /\ pc' = "done"
    /\ UNCHANGED <<engine, cache, shot, last, computed>>

\* names, as the sequences of their characters
Chars_particle == <<"p", "a", "r", "t", "i", "c", "l", "e">>
Name_sphere == Chars_particle \o <<"_", "s", "p", "h", "e", "r", "e">>
Name_spheroid == Chars_particle \o <<"_", "s", "p", "h", "e", "r", "o", "i", "d">>
Name_map == Chars_particle \o <<"_", "m", "a", "p">>
Name_atoms == Chars_particle \o <<"_", "a", "t", "o", "m", "s">>

\* str.startswith
StartsWith(str, prefix) ==
    /\ Len(str) >= Len(prefix)
    /\ SubSeq(str, 1, Len(prefix)) = prefix

\* the names given to particle models: the four prefixes, a prefix with a
\* suffix, "particle_x" and "sphere"
ModelNames ==
    {Name_sphere, Name_spheroid, Name_map, Name_atoms,
     Name_sphere \o <<"_", "2">>,
     Chars_particle \o <<"_", "x">>,
     <<"s", "p", "h", "e", "r", "e">>}

\* the particle dictionaries handed to Experiment(...): name and class of
\* each item, in iteration order
ParticleDicts ==
    UNION {{d \in [1..n -> [name : ModelNames, class : Kinds]] :
               \A i, j \in 1..n : d[i].name = d[j].name => i = j} :
           n \in 0..MaxModels}

\* the class a name asks for, lines 121-134 (None: the else branch)
ClassOfName(n) ==
    IF StartsWith(n, Name_sphere) THEN "sphere"
    ELSE IF StartsWith(n, Name_spheroid) THEN "spheroid"
    ELSE IF StartsWith(n, Name_map) THEN "map"
    ELSE IF StartsWith(n, Name_atoms) THEN "atoms"
    ELSE "None"

\* lines 120-134 from the item at place i on: the first item that is refused
RECURSIVE CheckParticles(_, _)
CheckParticles(d, i) ==
    IF i > Len(d)
    THEN "ok"
    ELSE IF ClassOfName(d[i].name) = "None"
         THEN "invalid name"
         ELSE IF ClassOfName(d[i].name) # d[i].class
              THEN "not an instance"
              ELSE CheckParticles(d, i + 1)

\* Experiment.__init__, lines 118-137, for a source and a detector with the
\* default settings
ExperimentInit(d) ==
    IF CheckParticles(d, 1) # "ok"
    THEN Raised(CheckParticles(d, 1))
    ELSE [outcome |-> "returned",
          particles |-> d,
          _qmap_cache |-> EmptyCache]

ExperimentCalls ==
    {[op |-> "Experiment", particles |-> d, out |-> None] :
        d \in ParticleDicts}

NewExperiment ==
    /\ pc = "call"
    /\ unit.op = "Experiment"
    /\ unit' = [unit EXCEPT !.out = ExperimentInit(unit.particles)]
    /\ pc' = "done"
    /\ UNCHANGED <<engine, cache, shot, last, computed>>

\* the keys of a configuration dictionary next to "source" and "detector"
ConfigKeys ==
    UNION {{k \in [1..n -> ModelNames] :
               \A i, j \in 1..n : k[i] = k[j] => i = j} :
           n \in 0..MaxModels}

\* lines 84-98 from the key at place i on: the particles built so far, or the
\* error of the first key no constructor is known for
RECURSIVE BuildParticles(_, _, _)
BuildParticles(keys, i, d) ==
    IF i > Len(keys)
    THEN [outcome |-> "returned", particles |-> d]
    ELSE IF ~StartsWith(keys[i], Chars_particle)
         THEN BuildParticles(keys, i + 1, d)
         ELSE IF ClassOfName(keys[i]) = "None"
              THEN Raised("not implemented")
              ELSE BuildParticles(keys, i + 1,
                       Append(d, [name |-> keys[i],
                                  class |-> ClassOfName(keys[i])]))

\* experiment_from_configdict, lines 71-102
FromConfigdict(keys) ==
    IF \A i \in DOMAIN keys : ~StartsWith(keys[i], Chars_particle)
    THEN Raised("No particles defined.")
    ELSE IF BuildParticles(keys, 1, <<>>).outcome = "raised"
         THEN BuildParticles(keys, 1, <<>>)
         ELSE ExperimentInit(BuildParticles(keys, 1, <<>>).particles)

ConfigdictCalls ==
    {[op |-> "experiment_from_configdict", keys |-> k, out |-> None] :
        k \in ConfigKeys}

ExperimentFromConfigdict ==
    /\ pc = "call"
    /\ unit.op = "experiment_from_configdict"
    /\ unit' = [unit EXCEPT !.out = FromConfigdict(unit.keys)]
    /\ pc' = "done"
    /\ UNCHANGED <<engine, cache, shot, last, computed>>

\* the atoms models a construction from arrays returns
AtomsObjects ==
    {o \in {ParticleAtomsInit(a) : a \in ParticleAtomsCalls} :
        o.outcome = "returned"}

\* get_conf, particle_atoms.py lines 131-144. Line 141 calls the method of
\* the base class on the class, without the instance: bound tells whether
\* that method can be called so. The dictionary has the keys of lines
\* 142-143 only.
get_conf(P0, bound) ==
    IF ~bound
    THEN [outcome |-> "raised", error |-> "TypeError", conf |-> None]
    ELSE [outcome |-> "returned", error |-> "",
          conf |-> [atomic_numbers |-> P0._atomic_numbers,
                    atomic_positions |-> P0._atomic_positions]]

\* ParticleAtoms(**conf): the arguments the dictionary lacks take the
\* defaults of lines 82-88
FromConf(conf) ==
    ParticleAtomsInit([spsim |-> SpsimMin,
                       atomic_numbers |-> conf.atomic_numbers,
                       atomic_positions |-> conf.atomic_positions,
                       atomic_formfactors |-> None])

GetConfCalls ==
    {[op |-> "get_conf", P0 |-> o, bound |-> b, out |-> None] :
        o \in AtomsObjects, b \in BOOLEAN}

\* conf = P0.get_conf() ; P1 = condor.ParticleAtoms(**conf)
GetConf ==
    /\ pc = "call"
    /\ unit.op = "get_conf"
    /\ unit' = [unit EXCEPT !.out =
                   LET r == get_conf(unit.P0, unit.bound)
                   IN [outcome |-> r.outcome, error |-> r.error,
                       P1 |-> IF r.outcome = "returned"
                              THEN FromConf(r.conf)
                              ELSE None]]
    /\ pc' = "done"
    /\ UNCHANGED <<engine, cache, shot, last, computed>>

\* condor.utils.material.get_atomic_mass, rounded, of hydrogen and carbon
AtomicMass(z) == IF z = 1 THEN 1 ELSE 12

RECURSIVE SumSeq(_)
\* numpy's sum() of an array
SumSeq(a) == IF a = <<>> THEN 0 ELSE Head(a) + SumSeq(Tail(a))

\* lines 239-264, without the square root and the divisions: M.sum(), then
\* (r*M[:, numpy.newaxis]).sum(), then <<a, b>> with r_g**2 = a / b
RadiusOfGyrationSquared(P0) ==
    LET Z == P0._atomic_numbers
        r == P0._atomic_positions
        N == Len(Z)
        M(i) == AtomicMass(Z[i])
        Msum == SumSeq([i \in 1..N |-> M(i)])
        Weighted(i) == M(i) * (r[i][1] + r[i][2] + r[i][3])
        Rsum == SumSeq([i \in 1..N |-> Weighted(i)])
        Sq(x) == x * x
        Spread(i) ==
            M(i) * (Sq(Msum * r[i][1] - Rsum) + Sq(Msum * r[i][2] - Rsum)
                      + Sq(Msum * r[i][3] - Rsum))
    IN <<SumSeq([i \in 1..N |-> Spread(i)]), Msum * Msum * Msum>>

\* 2 * r_g, as <<a, b>> with (2 * r_g)**2 = a / b
TwiceRadiusOfGyration(P0) ==
    <<4 * RadiusOfGyrationSquared(P0)[1], RadiusOfGyrationSquared(P0)[2]>>

\* the property diameter_mean, lines 266-271: an assignment and no return
diameter_mean(P0) ==
    [outcome |-> "returned",
     value |-> None,
     P |-> [P0 EXCEPT !._diameter_mean = TwiceRadiusOfGyration(P0)]]

DiameterCalls ==
    {[op |-> "diameter_mean", P0 |-> o, out |-> None] : o \in AtomsObjects}

\* particle_diameter = p.diameter_mean, experiment.py line 514
ReadDiameterMean ==
    /\ pc = "call"
    /\ unit.op = "diameter_mean"
    /\ unit' = [unit EXCEPT !.out = diameter_mean(unit.P0)]
    /\ pc' = "done"
    /\ UNCHANGED <<engine, cache, shot, last, computed>>

(* remove_from_dict, experiment.py lines 571-577. A dictionary is the
   sequence of its items in the order of list(D.items()); an item holds a
   key, and either a plain value or a dictionary. *)
MaxDepth == 1
Key_private == <<"_", "a">>
Key_public == <<"b">>
DictKeys == {Key_private, Key_public}
Plain(k, v) == [k |-> k, isdict |-> FALSE, value |-> v, sub |-> <<>>]
Nested(k, d) == [k |-> k, isdict |-> TRUE, value |-> 0, sub |-> d]

\* the dictionaries a key can hold, out of the dictionaries inner
Subdicts(k, inner) == {Nested(k, d) : d \in inner}

\* the dictionaries of at most two items, at most one of them a dictionary
\* out of inner, in either order of insertion
DictsOver(inner) ==
    {<<>>}
      \cup UNION {{<<Plain(k, 1)>>} \cup {<<e>> : e \in Subdicts(k, inner)} :
                     k \in DictKeys}
      \cup UNION {{<<Plain(kk[1], 1), Plain(kk[2], 1)>>}
                    \cup {<<e, Plain(kk[2], 1)>> : e \in Subdicts(kk[1], inner)}
                    \cup {<<Plain(kk[1], 1), e>> : e \in Subdicts(kk[2], inner)} :
                     kk \in {kk \in DictKeys \X DictKeys : kk[1] # kk[2]}}

RECURSIVE Dicts(_)
\* the dictionaries nested at most depth times
Dicts(depth) == DictsOver(IF depth = 0 THEN {} ELSE Dicts(depth - 1))

RECURSIVE remove_from_dict(_)
RECURSIVE RemoveItems(_, _)
\* the loop of lines 572-576 over the items left, D holding what was kept
RemoveItems(items, D) ==
    IF items = <<>>
    THEN [outcome |-> "returned", error |-> "", D |-> D]
    ELSE LET e == Head(items)
         IN IF StartsWith(e.k, <<"_">>)
            THEN \* line 574 deletes the key, line 576 looks it up again
                 IF e.isdict
                 THEN [outcome |-> "raised", error |-> "KeyError", D |-> D]
                 ELSE RemoveItems(Tail(items), D)
            ELSE IF e.isdict
                 THEN LET r == remove_from_dict(e.sub)
                      IN IF r.outcome = "raised"
                         THEN r
                         ELSE RemoveItems(Tail(items),
                                          Append(D, Nested(e.k, r.D)))
                 ELSE RemoveItems(Tail(items), Append(D, e))

remove_from_dict(D) == RemoveItems(D, <<>>)

RemoveCalls ==
    {[op |-> "remove_from_dict", D |-> d, out |-> None] : d \in Dicts(MaxDepth)}

RemoveFromDict ==
    /\ pc = "call"
    /\ unit.op = "remove_from_dict"
    /\ unit' = [unit EXCEPT !.out = remove_from_dict(unit.D)]
    /\ pc' = "done"
    /\ UNCHANGED <<engine, cache, shot, last, computed>>

(* The arrays of a kernel that computes on the field of the cache: cache is
   the array self._qmap_cache["qmap"], which get_qmap hands to the kernel,
   scaled the array of qmap_scaled, of which qmap_shaped is a view. *)

\* the rescaling done in place, on the array of the cache
ScaledBufferInPlace == "cache"

\* line 294: dx * qmap / (2. * numpy.pi) is a new array
ScaledBuffer == "scaled"

\* an assignment to the elements of the array b
Store(arrays, b, values) == [arrays EXCEPT ![b] = values]

\* lines 284-299 of the map kernel on the arrays
MapKernelArrays(qmap, dx) ==
    Store(Store([cache |-> qmap, scaled |-> None],
                ScaledBuffer, [j \in DOMAIN qmap |-> QmapScaled(qmap[j], dx)]),
          ScaledBuffer,
          [j \in DOMAIN qmap |-> Zeroed(QmapScaled(qmap[j], dx))])

\* lines 239-241 of the sphere kernel and 259-261 of the spheroid kernel:
\* qmap**2 is a new array, qx and qy are read only
ShapeKernelArrays(qmap) == [cache |-> qmap, scaled |-> None]

KernelArrays(kernel, qmap, dx) ==
    IF kernel = "map"
    THEN MapKernelArrays(qmap, dx)
    ELSE ShapeKernelArrays(qmap)

KernelArraysCalls ==
    {[op |-> "kernel_arrays", kernel |-> k, qmap |-> q, dx |-> dx,
      out |-> None] :
        k \in {"sphere", "spheroid", "map"},
        q \in UNION {[1..n -> QSamples] : n \in 1..MaxSamples},
        dx \in VoxelSizes}

\* a kernel on the field of the cache, then get_qmap with the same arguments
KernelOnCachedField ==
    /\ pc = "call"
    /\ unit.op = "kernel_arrays"
    /\ unit' = [unit EXCEPT
                  !.out = [arrays |-> KernelArrays(unit.kernel, unit.qmap,
                                                   unit.dx),
                           hit |-> KernelArrays(unit.kernel, unit.qmap,
                                                unit.dx).cache]]
    /\ pc' = "done"
    /\ UNCHANGED <<engine, cache, shot, last, computed>>

(* Binning, experiment.py lines 398-404 and 424-431, on one block of fine
   pixels: the mask of a pixel is the set of its bad-pixel bits. *)

\* the largest binning factor of the detector
MaxBinning == 2

\* PixelMask.PIXEL_IS_IN_MASK
PIXEL_IS_IN_MASK == "PIXEL_IS_IN_MASK"

\* the masks of the fine pixels of one block of n by n pixels
MaskBlocks ==
    UNION {[1..(n * n) -> {{}, {PIXEL_IS_IN_MASK}}] : n \in 2..MaxBinning}

\* detector.bin_photons(I_tot, M_tot) on the block: the counts are summed and
\* the mask bits of the block are or-ed
bin_photons(I, M) ==
    [data |-> SumSeq(I), mask |-> UNION {M[i] : i \in DOMAIN M}]

\* condor.utils.resample.downsample(F_tot, binning, mode="integrate",
\* mask2d0, bad_bits, min_N_pixels) on the block: a block with fewer than
\* min_N_pixels pixels free of bad_bits is marked invalid
downsample(F, M, bad_bits, min_N_pixels) ==
    [data |-> SumSeq(F),
     mask |-> IF Cardinality({i \in DOMAIN M : bad_bits \notin M[i]})
                    < min_N_pixels
              THEN {bad_bits}
              ELSE {}]

\* lines 401-403 and 424-429: MXxX_tot is assigned by bin_photons, then
\* again by downsample, and goes into data_2
data_2(F_tot, I_tot, M_tot) ==
    [data_fourier |-> downsample(F_tot, M_tot, PIXEL_IS_IN_MASK, 1).data,
     data |-> bin_photons(I_tot, M_tot).data,
     mask |-> downsample(F_tot, M_tot, PIXEL_IS_IN_MASK, 1).mask]

\* one count and one unit of amplitude in every fine pixel
Ones(M) == [i \in DOMAIN M |-> 1]

BinningCalls ==
    {[op |-> "binning", M_tot |-> M, out |-> None] : M \in MaskBlocks}

Binning ==
    /\ pc = "call"
    /\ unit.op = "binning"
    /\ unit' = [unit EXCEPT
                  !.out = data_2(Ones(unit.M_tot), Ones(unit.M_tot),
                                 unit.M_tot)]
    /\ pc' = "done"
    /\ UNCHANGED <<engine, cache, shot, last, computed>>

(* Objects of the external simulator in the atoms kernel *)

\* the object of this name that evaluation k of the atoms kernel obtains
Obtain(k, name) == <<"obtain", <<k, name>>>>

\* the release of that object
Release(k, name) == <<"release", <<k, name>>>>

\* the calls of evaluation k that obtain or release an object of spsim, in
\* program order; ndim decides the size of qmap_img only
SimulatorCalls(k) ==
    << Obtain(k, "opts"),          \* _conf_to_spsim_opts
       Obtain(k, "mol"),           \* get_molecule_from_atoms
       Obtain(k, "pat"),           \* simulate_shot
       Obtain(k, "F_img"),         \* make_cimage
       Obtain(k, "phot_img"),      \* make_image
       Release(k, "F_img"),        \* sp_image_free
       Release(k, "phot_img"),     \* sp_image_free
       Obtain(k, "qmap_img"),      \* sp_image_alloc
       Release(k, "qmap_img"),     \* sp_image_free
       Release(k, "pat"),          \* free_diffraction_pattern
       Release(k, "opts") >>       \* free_output_in_options

\* the calls of n evaluations of the kernel, one after the other
RECURSIVE Evaluations(_)
Evaluations(n) ==
    IF n = 0 THEN <<>> ELSE Evaluations(n - 1) \o SimulatorCalls(n)

\* the objects still held after the first n of the calls
RECURSIVE Held(_, _)
Held(calls, n) ==
    IF n = 0 THEN {}
    ELSE IF calls[n][1] = "obtain"
         THEN Held(calls, n - 1) \cup {calls[n][2]}
         ELSE Held(calls, n - 1) \ {calls[n][2]}

SimulatorObjectsCalls ==
    {[op |-> "simulator_objects", ndim |-> d, evaluations |-> n,
      out |-> None] : d \in {2, 3}, n \in 1..MaxParticles}

SimulatorObjects ==
    /\ pc = "call"
    /\ unit.op = "simulator_objects"
    /\ unit' = [unit EXCEPT
                  !.out = [calls |-> Evaluations(unit.evaluations),
                           held |-> Held(Evaluations(unit.evaluations),
                                         Len(Evaluations(unit.evaluations)))]]
    /\ pc' = "done"
    /\ UNCHANGED <<engine, cache, shot, last, computed>>

\* the calls made on their own, and the state before one of them
InitUnits ==
    /\ engine = NoEngine
    /\ cache = EmptyCache
    /\ pc = "call"
    /\ shot = NoShot
    /\ last = NoCall
    /\ computed = FALSE
    /\ \/ unit \in MapPatternCalls
       \/ unit \in ParticleAtomsCalls
       \/ unit \in ExperimentCalls
       \/ unit \in ConfigdictCalls
       \/ unit \in RemoveCalls
       \/ unit \in GetConfCalls
       \/ unit \in DiameterCalls
       \/ unit \in BinningCalls
       \/ unit \in KernelArraysCalls
       \/ unit \in SimulatorObjectsCalls

NextUnits ==
    \/ MapPatternCall
    \/ NewParticleAtoms
    \/ NewExperiment
    \/ ExperimentFromConfigdict
    \/ RemoveFromDict
    \/ GetConf
    \/ ReadDiameterMean
    \/ Binning
    \/ KernelOnCachedField
    \/ SimulatorObjects

Units == InitUnits /\ [][NextUnits]_vars

----------------------------------------------------------------------------
(* An engine with an atoms model, from the construction of the model on *)

NameOfKind(k) ==
    CASE k = "sphere" -> Name_sphere
      [] k = "spheroid" -> Name_spheroid
      [] k = "map" -> Name_map
      [] OTHER -> Name_atoms

\* the particle dictionary of the engine e
DictOf(e) ==
    [i \in DOMAIN e.models |->
        [name |-> NameOfKind(e.models[i]), class |-> e.models[i]]]

\* the engines Experiment(...) makes of the atoms model just constructed;
\* their kernels will find the simulator that the constructor imported
EnginesOfAtoms(call) ==
    {e \in Engines :
        /\ \E i \in DOMAIN e.models : e.models[i] = "atoms"
        /\ e.spsim_version_ok = VersionOk(call.spsim)
        /\ ExperimentInit(DictOf(e)).outcome = "returned"}

ExperimentOfAtoms ==
    /\ pc = "done"
    /\ unit.op = "ParticleAtoms"
    /\ unit.out.outcome = "returned"
    /\ engine' \in EnginesOfAtoms(unit)
    /\ pc' = "idle"
    /\ UNCHANGED <<cache, shot, last, computed, unit>>

\* one atom, and any installation of the simulator
InitAtomsLife ==
    /\ engine = NoEngine
    /\ cache = EmptyCache
    /\ pc = "call"
    /\ shot = NoShot
    /\ last = NoCall
    /\ computed = FALSE
    /\ unit \in {c \in ParticleAtomsCalls :
                    /\ c.atomic_numbers = <<6>>
                    /\ c.atomic_positions = << <<0, 0, 0>> >>
                    /\ c.atomic_formfactors = None}

NextAtomsLife ==
    \/ NewParticleAtoms
    \/ ExperimentOfAtoms
    \/ PropagateStart
    \/ Miss
    \/ PropagateRest
    \/ Return

AtomsLife == InitAtomsLife /\ [][NextAtomsLife]_vars

----------------------------------------------------------------------------
(* get_qmap called by workers that share one engine. A worker is a thread   *)
(* inside get_qmap: between two of its reads of self._qmap_cache, and      *)
(* between its assignment and its return, another worker may run.          *)

\* the workers that share the engine
MaxWorkers == 2

\* the requests of the workers: each is answered with its own field when the
\* calls are made one after the other
WorkerRequests ==
    {Req(DetGeom, Rot(0), "xyz"), Req(DetGeom, Rot(MaxRot), "xyz"),
     Req(Deviate("wavelength"), Rot(0), "xyz")}

\* lines 445-454: the key fields in the order get_qmap compares them
CompareOrder ==
    <<"nx", "ny", "cx", "cy", "pixel_size", "detector_distance",
      "wavelength", "order", "extrinsic_rotation">>

\* a worker at line 442 of a call with the arguments req
Frame(req) ==
    [pc |-> "test", req |-> req, i |-> 0, first |-> None, torn |-> FALSE,
     out |-> None]

\* the worker w moves on to the frame f
Moves(w, f) == unit' = [unit EXCEPT !.frames[w] = f]

\* one comparison of lines 445-454: whether the key field differs from the
\* one the cache holds now
Differs(req, field, c) ==
    IF field = "extrinsic_rotation"
    THEN /\ req.extrinsic_rotation # None
         /\ ~is_similar(req.extrinsic_rotation, c.extrinsic_rotation)
    ELSE req[field] # c[field]

\* line 442: if self._qmap_cache == {}
WorkerTest(w) ==
    /\ unit.frames[w].pc = "test"
    /\ Moves(w, IF cache = EmptyCache
                THEN [unit.frames[w] EXCEPT !.pc = "assign"]
                ELSE [unit.frames[w] EXCEPT !.pc = "compare", !.i = 1,
                                            !.first = cache])
    /\ UNCHANGED <<engine, cache, pc, shot, last, computed>>

\* one of the lines 445-454; once calculate is true the cache is not read
\* any more
WorkerCompare(w) ==
    /\ unit.frames[w].pc = "compare"
    /\ Moves(w, [unit.frames[w] EXCEPT
                   !.torn = @ \/ cache # unit.frames[w].first,
                   !.pc = IF Differs(unit.frames[w].req,
                                     CompareOrder[unit.frames[w].i], cache)
                          THEN "assign"
                          ELSE IF unit.frames[w].i = Len(CompareOrder)
                               THEN "return"
                               ELSE "compare",
                   !.i = @ + 1])
    /\ UNCHANGED <<engine, cache, pc, shot, last, computed>>

\* lines 455-468: the new entry is built, then assigned
WorkerAssign(w) ==
    /\ unit.frames[w].pc = "assign"
    /\ cache' = Entry(GenerateQmap(unit.frames[w].req.wavelength,
                                   unit.frames[w].req.cx,
                                   unit.frames[w].req.cy,
                                   unit.frames[w].req.extrinsic_rotation,
                                   unit.frames[w].req.order),
                      unit.frames[w].req)
    /\ Moves(w, [unit.frames[w] EXCEPT !.pc = "return"])
    /\ UNCHANGED <<engine, pc, shot, last, computed>>

\* line 469: return self._qmap_cache["qmap"]
WorkerReturn(w) ==
    /\ unit.frames[w].pc = "return"
    /\ Moves(w, [unit.frames[w] EXCEPT !.pc = "done", !.out = cache.qmap])
    /\ UNCHANGED <<engine, cache, pc, shot, last, computed>>

\* the engine is new, or has answered one of the requests before
InitWorkers ==
    /\ engine = NoEngine
    /\ cache \in {EmptyCache} \cup
                 {Entry(GenerateQmap(r.wavelength, r.cx, r.cy,
                                     r.extrinsic_rotation, r.order), r) :
                     r \in WorkerRequests}
    /\ pc = "call"
    /\ shot = NoShot
    /\ last = NoCall
    /\ computed = FALSE
    /\ unit \in {[op |-> "get_qmap", frames |-> f] :
                    f \in [1..MaxWorkers -> {Frame(r) : r \in WorkerRequests}]}

NextWorkers ==
    \E w \in 1..MaxWorkers :
        \/ WorkerTest(w)
        \/ WorkerCompare(w)
        \/ WorkerAssign(w)
        \/ WorkerReturn(w)

Workers == InitWorkers /\ [][NextWorkers]_vars

----------------------------------------------------------------------------
(* Properties of the qmap cache *)

\* the nine key fields of the request are those of the entry c
SameKey(req, c) ==
    /\ \A f \in GeomFields : req[f] = c[f]
    /\ req.order = c.order
    /\ req.extrinsic_rotation = c.extrinsic_rotation

\* the rotation of the request is not the entry's: one is missing, or the two
\* are not similar
RotationDiffers(req, c) ==
    IF req.extrinsic_rotation = None \/ c.extrinsic_rotation = None
    THEN req.extrinsic_rotation # c.extrinsic_rotation
    ELSE ~is_similar(req.extrinsic_rotation, c.extrinsic_rotation)

\* some key field of the request differs from the entry c
KeyDiffers(req, c) ==
    \/ \E f \in GeomFields : req[f] # c[f]
    \/ req.order # c.order
    \/ RotationDiffers(req, c)

\* detector.generate_qmap called with the arguments of the request
DirectGeneration(req) ==
    GenerateQmap(req.wavelength, req.cx, req.cy, req.extrinsic_rotation,
                 req.order)

\* a get_qmap call of a user ends in this step
GetQmapStep == pc = "idle" /\ pc' = "returned" /\ last'.op = "get_qmap"

\* C1: after any sequence of engine operations, a get_qmap call whose nine
\* key fields are those of the current cache entry returns the cached field
\* without invoking the generator, and that field is what direct generation
\* yields for those parameters.
C1_HitIsDirectGeneration ==
    [][(GetQmapStep /\ cache # EmptyCache /\ SameKey(last'.req, cache))
        => /\ last'.outcome = "returned"
           /\ ~last'.generated
           /\ last'.value = cache.qmap
           /\ last'.value = DirectGeneration(last'.req)]_vars

\* C2: get_qmap recomputes (invokes the generator, and unless the generator
\* raises replaces the entry) whenever one key field of the request differs
\* from the cached entry, a missing or dissimilar rotation included.
C2_MismatchRecomputes ==
    [][(GetQmapStep /\ cache # EmptyCache /\ KeyDiffers(last'.req, cache))
        => /\ last'.generated
           /\ last'.outcome = "returned"
                => cache' = Entry(DirectGeneration(last'.req), last'.req)]_vars

\* the entry c is complete
Complete(c) == DOMAIN c = CacheFields

\* the step installs in the cache what one computation of this step made: the
\* field get_qmap generated and returned under the key it was asked for, or the
\* field a kernel of the shot computed on under the key of that kernel
WholeEntry ==
    \/ /\ last'.op = "get_qmap"
       /\ last'.generated
       /\ cache' = Entry(last'.value, last'.req)
       /\ last'.value = DirectGeneration(last'.req)
    \/ /\ last'.op = "propagate"
       /\ \E i \in DOMAIN last'.steps :
             LET st == last'.steps[i]
             IN /\ st.generated \/ st.kind = "atoms"
                /\ cache' = Entry(st.qmap,
                                  ShotReq(st.qmap.rot, st.qmap.order))

\* C3: the engine holds an empty cache or one complete entry; every change of
\* the cache installs a whole entry made by one computation, and a get_qmap
\* call whose generator raises leaves the entry as it was.
C3_SingleWholeEntry ==
    [][/\ cache' = EmptyCache \/ Complete(cache')
       /\ cache' # cache => WholeEntry
       /\ (GetQmapStep /\ last'.outcome = "raised") => cache' = cache]_vars

\* the generator has raised in a get_qmap call on an engine that holds an
\* entry, and the entry is still there, whole
C3_Witness ==
    /\ pc = "returned"
    /\ last.op = "get_qmap"
    /\ last.generated
    /\ last.outcome = "raised"
    /\ Complete(cache)
    /\ KeyDiffers(last.req, cache)

\* C4: get_qmap_from_cache raises when no field has ever been computed or
\* registered on the engine; otherwise it returns the cached field; it never
\* computes and leaves the cache as it was.
C4_FromCache ==
    [][(pc = "idle" /\ pc' = "returned" /\ last'.op = "get_qmap_from_cache")
        => /\ last'.outcome = "raised" <=> ~computed
           /\ computed => last'.value = cache.qmap
           /\ cache' = cache
           /\ computed' = computed]_vars

\* get_qmap_from_cache has returned a field the atoms kernel registered
C4_Witness ==
    /\ pc = "returned"
    /\ last.op = "get_qmap_from_cache"
    /\ last.outcome = "returned"
    /\ last.value.gen = "spsim"

----------------------------------------------------------------------------
(* Properties of a shot *)

\* a propagation call has ended and its caller has not yet taken the result
Propagated == pc = "returned" /\ last.op = "propagate"

\* the sum of the amplitudes of the steps, computed apart from the loop
RECURSIVE SumF(_, _)
SumF(steps, n) == IF n = 0 THEN <<0, 0>> ELSE CAdd(SumF(steps, n - 1), steps[n].F)

\* the sum of the intensities of the steps
RECURSIVE SumI(_, _)
SumI(steps, n) == IF n = 0 THEN 0 ELSE SumI(steps, n - 1) + Abs2(steps[n].F)

\* the factor sqrt(P) of the call: P = 1. in a 3-D propagation
SqrtPOf(e, ndim) == IF ndim = 2 THEN SqrtP(e.polarization) ELSE 1

\* the total a call must have formed from the steps it recorded
TotalOf(e, call) ==
    CScale(SqrtPOf(e, call.ndim), SumF(call.steps, Len(call.steps)))

\* the amplitude the step st of the call must carry: the kernel of its
\* particle on the field of the step, after the phase factor
StepAmplitude(e, call, st) ==
    LET p == call.particles[st.key]
    IN PhaseShifted(p, Qmap0(call.ndim),
                    IF st.kind = "atoms"
                    THEN AtomsF(call.ndim, p)
                    ELSE Amplitude(st.kind, e, p, st.qmap))

\* C5: in every shot the total amplitude is the sum of the amplitudes of the
\* particle instances, each after its phase factor, scaled by sqrt(P), and
\* photon detection is handed the squared magnitude of that total.
C5_CoherentSum ==
    Propagated =>
        /\ \A i \in DOMAIN last.steps :
              last.steps[i].F = StepAmplitude(engine, last, last.steps[i])
        /\ last.outcome = "returned" => last.F_tot = TotalOf(engine, last)
        /\ last.error \in {"", "UnboundLocalError"}
              => last.detect_input = Abs2(TotalOf(engine, last))

\* a shot of two instances, one of them off centre, under a polarization
\* factor other than 1, whose intensity is not the sum of the two intensities
C5_Witness ==
    /\ Propagated
    /\ last.outcome = "returned"
    /\ Len(last.steps) = 2
    /\ \E k \in DOMAIN last.particles : last.particles[k].pos # 0
    /\ SqrtPOf(engine, last.ndim) # 1
    /\ last.detect_input #
          SqrtPOf(engine, last.ndim) * SqrtPOf(engine, last.ndim)
            * SumI(last.steps, 2)

\* the orders in which the items of the dictionary D can be met
Orderings(D) ==
    {o \in [1..Cardinality(DOMAIN D) -> DOMAIN D] :
        \A i, j \in DOMAIN o : o[i] = o[j] => i = j}

\* C6: the total amplitude of a shot is the same in whatever order its
\* particle instances are accumulated.
C6_OrderIndependent ==
    [][(pc = "sampling" /\ pc' = "returned" /\ last'.outcome = "returned")
        => \A o \in Orderings(last'.particles) :
              PropagateFrom(engine, cache, shot.ndim, last'.particles, o).F_tot
                 = last'.F_tot]_vars

ConfigErrors == {"ndim", "solid_angle3d", "spheroid3d", "polarization3d"}

\* C7: a 3-D propagation ends with a configuration error, and no result, when
\* the detector corrects for solid angles, when an instance of the shot is a
\* spheroid, and when the polarization of the source is not "ignore".
C7_Abort3d ==
    (/\ Propagated
     /\ last.ndim = 3
     /\ \/ engine.solid_angle_correction
        \/ engine.polarization # "ignore"
        \/ \E k \in DOMAIN last.particles :
              last.particles[k].kind = "spheroid")
    => /\ last.outcome = "raised"
       /\ last.error \in ConfigErrors

\* C8: a propagation of a dimensionality other than 2 or 3 is rejected with a
\* configuration error before the source, the particle models or the detector
\* are advanced and before the cache is read or written.
C8_NdimFirst ==
    [][(pc = "idle" /\ last'.op = "propagate" /\ last'.ndim \notin {2, 3})
        => /\ pc' = "returned"
           /\ last'.outcome = "raised"
           /\ last'.error = "ndim"
           /\ last'.log = <<>>
           /\ last'.steps = <<>>
           /\ cache' = cache
           /\ computed' = computed]_vars

\* a propagation of dimensionality 1 has been rejected on an engine that
\* holds a cache entry
C8_Witness ==
    /\ Propagated
    /\ last.ndim = 1
    /\ last.error = "ndim"
    /\ cache # EmptyCache

\* C9: a configuration error of a propagation call is raised before any
\* particle kernel has been evaluated and before the simulator has been
\* invoked in that call.
C9_ErrorsFirst ==
    (Propagated /\ last.error \in ConfigErrors)
    => /\ last.steps = <<>>
       /\ last.spsim_shots = 0

\* "particle_%02i" written out
KeyNames == <<"particle_00", "particle_01", "particle_02", "particle_03">>

\* C10: the particle set of a shot is never empty; it holds one instance for
\* every particle reported in the attempt that found particles, n of a model
\* that reported n, under the keys particle_00, particle_01, ... numbered from
\* 0 without a gap.
C10_ParticleSet ==
    (Propagated /\ last.ndim \in {2, 3})
    => LET N == SumTo(last.counts, Len(engine.models))
       IN /\ N >= 1
          /\ DOMAIN last.particles = {KeyNames[i] : i \in 1..N}
          /\ Cardinality(DOMAIN last.particles) = N
          /\ \A m \in DOMAIN engine.models :
                Cardinality({k \in DOMAIN last.particles :
                                last.particles[k].model = m}) = last.counts[m]
          /\ \A i \in DOMAIN last.steps :
                last.steps[i].key \in DOMAIN last.particles

\* a shot found particles after an attempt that found none, and one model
\* reported two of them
C10_Witness ==
    /\ Propagated
    /\ last.ndim \in {2, 3}
    /\ last.misses > 0
    /\ \E m \in DOMAIN last.counts : last.counts[m] = 2
    /\ DOMAIN last.particles = {"particle_00", "particle_01"}

----------------------------------------------------------------------------
(* The retry loop *)

\* C11: the retry loop has no cap. A call leaves the loop only with an
\* attempt that found a particle; an engine without particle models never
\* leaves it; and if an attempt that finds particles comes in the end, the
\* call ends.
C11_RetryUntilParticles ==
    /\ [][(pc = "sampling" /\ pc' # "sampling")
            => /\ last'.op = "propagate"
               /\ SumTo(last'.counts, Len(engine.models)) > 0]_vars
    /\ [][(pc = "sampling" /\ engine.models = <<>>) => pc' = "sampling"]_vars
    /\ (pc = "sampling" /\ engine.models # <<>>) ~> (pc = "returned")

\* a call has returned a result after attempts that found no particle
C11_Witness ==
    /\ Propagated
    /\ last.outcome = "returned"
    /\ last.misses = MaxMisses
    /\ last.misses > 0

----------------------------------------------------------------------------
(* The map kernel's range check *)

UnitDone(op) == pc = "done" /\ unit.op = op

\* the components of the sample at place k that are out of range after
\* rescaling, written from the claim: below -0.5, or 0.5 and above
OutOfRange(call, k) ==
    {i \in 1..3 : call.dx * call.qmap[k][i] < -2
                    \/ call.dx * call.qmap[k][i] >= 2}

\* C12: in the map kernel every component of a query sample that lies outside
\* [-0.5, 0.5) after rescaling by dx/(2*pi) is zero in the input of the
\* transform, the output element of a sample is NaN exactly when one of its
\* components was out of range, and the kernel returns a full pattern.
C12_OutOfRangeIsNaN ==
    UnitDone("map_pattern") =>
        /\ unit.out.outcome = "returned"
        /\ DOMAIN unit.out.F = DOMAIN unit.qmap
        /\ \A k \in DOMAIN unit.qmap :
              /\ \A i \in 1..3 :
                    unit.out.nfft_input[k][i] =
                       IF i \in OutOfRange(unit, k)
                       THEN 0
                       ELSE unit.dx * unit.qmap[k][i]
              /\ unit.out.F[k] = NaN <=> OutOfRange(unit, k) # {}

\* a field of two samples: the first has a component at the upper bound 0.5
\* and is flagged, the second is in range and is not
C12_Witness ==
    /\ UnitDone("map_pattern")
    /\ Len(unit.qmap) = 2
    /\ \E i \in 1..3 : unit.dx * unit.qmap[1][i] = 2
    /\ OutOfRange(unit, 2) = {}
    /\ unit.out.F[1] = NaN
    /\ unit.out.F[2] # NaN

----------------------------------------------------------------------------
(* Construction of the engine *)

\* the particle dictionary d is what an engine may hold: one model at least,
\* each under a name with one of the four prefixes and of the class the
\* prefix names (written out from the claim)
WellNamed(d) ==
    /\ Len(d) >= 1
    /\ \A i \in DOMAIN d :
          \E k \in Kinds :
             /\ d[i].class = k
             /\ \/ k = "sphere" /\ StartsWith(d[i].name, Name_sphere)
                \/ k = "spheroid" /\ StartsWith(d[i].name, Name_spheroid)
                \/ k = "map" /\ StartsWith(d[i].name, Name_map)
                \/ k = "atoms" /\ StartsWith(d[i].name, Name_atoms)

\* C18: every engine that was constructed has one particle model at least,
\* each under a name that starts with one of the four prefixes and of the
\* class the prefix names; the constructor and experiment_from_configdict
\* raise when a model is missing, misnamed or mismatching.
C18_WellNamedModels ==
    /\ UnitDone("Experiment") =>
          IF WellNamed(unit.particles)
          THEN unit.out.outcome = "returned"
          ELSE unit.out.outcome = "raised"
    /\ UnitDone("experiment_from_configdict") =>
          /\ unit.out.outcome = "returned" => WellNamed(unit.out.particles)
          /\ (\A i \in DOMAIN unit.keys :
                 ~StartsWith(unit.keys[i], Chars_particle))
                => unit.out.outcome = "raised"

----------------------------------------------------------------------------
(* The atoms kernel *)

\* the cache that the steps of a call leave behind when it began with c
RECURSIVE CacheLeftBy(_, _, _)
CacheLeftBy(c, steps, n) ==
    IF n = 0
    THEN c
    ELSE IF steps[n].generated \/ steps[n].kind = "atoms"
         THEN Entry(steps[n].qmap,
                    ShotReq(steps[n].qmap.rot, steps[n].qmap.order))
         ELSE CacheLeftBy(c, steps, n - 1)

C13_WitnessMissing ==
    /\ UnitDone("ParticleAtoms")
    /\ unit.spsim = Missing
    /\ unit.out.outcome = "raised"
    /\ engine = NoEngine

\* the steps of the call that wrote the cache
Writers(call) ==
    {i \in DOMAIN call.steps :
        call.steps[i].generated \/ call.steps[i].kind = "atoms"}

\* the entry the atoms kernel must leave for the instance p of the call
AtomsEntry(call, p) ==
    [qmap |-> SpsimQmap(call.ndim, DetGeom, p.rot),
     nx |-> DetGeom.nx, ny |-> DetGeom.ny, cx |-> DetGeom.cx,
     cy |-> DetGeom.cy, pixel_size |-> DetGeom.pixel_size,
     detector_distance |-> DetGeom.detector_distance,
     wavelength |-> DetGeom.wavelength,
     extrinsic_rotation |-> p.rot, order |-> "zyx"]

\* C14: the simulator simulates one shot for every atoms instance whose
\* kernel ran; that kernel computes on the simulator's field whatever the
\* cache held, and leaves it in the cache under the geometry of the shot, the
\* rotation of the instance and the order 'zyx': the next kernel that hits
\* the cache gets it, and it is the entry after the call when no later kernel
\* wrote.
C14_AtomsRegisters ==
    Propagated =>
        /\ last.spsim_shots =
              Cardinality({i \in DOMAIN last.steps :
                              last.steps[i].kind = "atoms"})
        /\ last.outcome = "returned" =>
              last.spsim_shots =
                 Cardinality({k \in DOMAIN last.particles :
                                 last.particles[k].kind = "atoms"})
        /\ \A i \in DOMAIN last.steps :
              LET st == last.steps[i]
                  p == last.particles[st.key]
              IN st.kind = "atoms" =>
                   /\ st.qmap = SpsimQmap(last.ndim, DetGeom, p.rot)
                   /\ ~st.generated
                   /\ (i = Len(last.steps) \/ \A j \in Writers(last) : j <= i)
                         => cache = AtomsEntry(last, p)
                   /\ (/\ i < Len(last.steps)
                       /\ last.ndim = 2
                       /\ last.steps[i + 1].kind # "atoms"
                       /\ ~last.steps[i + 1].generated)
                         => last.steps[i + 1].qmap = AtomsEntry(last, p).qmap

\* a shot of two atoms instances of different orientations: two simulated
\* shots, and the entry of the second instance in the cache
C14_Witness ==
    /\ Propagated
    /\ last.outcome = "returned"
    /\ last.spsim_shots = 2
    /\ Len(last.steps) = 2
    /\ last.particles["particle_00"].rot # last.particles["particle_01"].rot
    /\ cache = AtomsEntry(last, last.particles["particle_01"])

RECURSIVE NoPrivateKey(_)
\* no key of the dictionary, at any depth, starts with "_"
NoPrivateKey(D) ==
    \A i \in DOMAIN D :
        /\ ~StartsWith(D[i].k, <<"_">>)
        /\ D[i].isdict => NoPrivateKey(D[i].sub)

RECURSIVE PublicPart(_)
\* the dictionary without its private keys, at every depth
PublicPart(D) ==
    IF D = <<>>
    THEN <<>>
    ELSE LET e == Head(D)
         IN IF StartsWith(e.k, <<"_">>)
            THEN PublicPart(Tail(D))
            ELSE <<IF e.isdict THEN Nested(e.k, PublicPart(e.sub)) ELSE e>>
                    \o PublicPart(Tail(D))

\* C15: stripping a dictionary never fails, whatever a private key holds,
\* and returns it without any private key at any depth and with every other
\* key and its value.
C15_PrivateStripped ==
    UnitDone("remove_from_dict") =>
        /\ unit.out.outcome = "returned"
        /\ NoPrivateKey(unit.out.D)
        /\ unit.out.D = PublicPart(unit.D)

\* the errors of the external simulator
DependencyErrors == {"spsim_version"}

\* C16: in 2-D and in 3-D, a propagation that raises no configuration error
\* returns a result, which holds the binned arrays data_2 exactly when the
\* binning factor of the detector is not null.
C16_BinnedCounterparts ==
    (/\ Propagated
     /\ last.error \notin ConfigErrors \cup DependencyErrors)
    => /\ last.outcome = "returned"
       /\ last.data_2 = (engine.binning # None)

\* the amplitude the kernel of the step st computed, before any phase factor
KernelAmplitude(e, call, st) ==
    IF st.kind = "atoms"
    THEN AtomsF(call.ndim, call.particles[st.key])
    ELSE Amplitude(st.kind, e, call.particles[st.key], st.qmap)

\* exp(-1j * v . qmap0) of an instance at the offset pos
PhaseFactor(call, pos) ==
    ExpQuarterTurns(pos * FieldCode(Qmap0(call.ndim)))

\* C17: an instance of any kind enters the total with the amplitude of its
\* kernel when its position offset is zero, and with that amplitude times
\* the phase factor otherwise; the phase factor is taken on the unrotated
\* field qmap0 of the shot, and the total is the sum of the amplitudes after
\* their phase factors.
C17_PhaseFromQmap0 ==
    Propagated =>
        /\ \A i \in DOMAIN last.steps :
              LET st == last.steps[i]
                  pos == last.particles[st.key].pos
              IN /\ pos = 0 => st.F = KernelAmplitude(engine, last, st)
                 /\ pos # 0 =>
                      /\ st.F = CMul(KernelAmplitude(engine, last, st),
                                     PhaseFactor(last, pos))
                      /\ st.F # KernelAmplitude(engine, last, st)
        /\ last.outcome = "returned" =>
              last.F_tot = CScale(SqrtPOf(engine, last.ndim),
                                  SumF(last.steps, Len(last.steps)))

\* a shot of an instance on the axis and a rotated instance off the axis,
\* whose kernel computed on a field that would give another phase factor
C17_Witness ==
    /\ Propagated
    /\ last.outcome = "returned"
    /\ Len(last.steps) = 2
    /\ last.particles[last.steps[1].key].pos = 0
    /\ last.particles[last.steps[2].key].pos # 0
    /\ last.steps[2].qmap # Qmap0(last.ndim)
    /\ ExpQuarterTurns(last.particles[last.steps[2].key].pos
                          * FieldCode(last.steps[2].qmap))
          # PhaseFactor(last, last.particles[last.steps[2].key].pos)

\* C19: get_conf of an atoms model built from arrays, with or without form
\* factors, returns, and the model constructed from the dictionary has the
\* same atomic numbers, positions and form factors.
C19_ConfRoundTrip ==
    UnitDone("get_conf") =>
        /\ unit.out.outcome = "returned"
        /\ unit.out.P1.outcome = "returned"
        /\ unit.out.P1._atomic_numbers = unit.P0._atomic_numbers
        /\ unit.out.P1._atomic_positions = unit.P0._atomic_positions
        /\ unit.out.P1._atomic_formfactors = unit.P0._atomic_formfactors

\* C20: reading diameter_mean of an atoms model yields two times its radius
\* of gyration.
C20_DiameterIsTwiceRg ==
    UnitDone("diameter_mean") =>
        /\ unit.out.outcome = "returned"
        /\ unit.out.value = TwiceRadiusOfGyration(unit.P0)

----------------------------------------------------------------------------
(* Workers sharing the cache *)

\* C21: when get_qmap calls with different arguments are interleaved on one
\* engine, no call compares its arguments with key fields of two different
\* entries, and every call returns the field generated for its own arguments.
C21_NoTornRead ==
    unit.op = "get_qmap" =>
        \A w \in DOMAIN unit.frames :
            unit.frames[w].pc = "done" =>
                /\ ~unit.frames[w].torn
                /\ unit.frames[w].out =
                      GenerateQmap(unit.frames[w].req.wavelength,
                                   unit.frames[w].req.cx,
                                   unit.frames[w].req.cy,
                                   unit.frames[w].req.extrinsic_rotation,
                                   unit.frames[w].req.order)

----------------------------------------------------------------------------
(* Binning *)

\* C22: the mask that goes into data_2 with the binned counts is the mask the
\* detector's bin_photons returns for these counts: a block carries a bad-pixel
\* bit whenever one of its fine pixels carries it.
C22_BinnedMaskIsOr ==
    UnitDone("binning") =>
        /\ unit.out.mask = bin_photons(Ones(unit.M_tot), unit.M_tot).mask
        /\ \A i \in DOMAIN unit.M_tot : unit.M_tot[i] \subseteq unit.out.mask

----------------------------------------------------------------------------
(* Aborted calls and the cache *)

\* C23: a propagation that ends with a configuration error or with an error
\* of the external simulator leaves the cache as it was before the call.
C23_AbortKeepsCache ==
    [][(/\ pc = "sampling"
        /\ pc' = "returned"
        /\ last'.outcome = "raised"
        /\ last'.error \in ConfigErrors \cup DependencyErrors)
       => cache' = cache]_vars

\* C24: whatever calls came before on the engine, a field that get_qmap
\* returns, and a field on which the sphere, spheroid or map kernel of a 2-D
\* propagation computes, is a field of the detector plane.
C24_PlaneFieldsIn2d ==
    /\ (pc = "returned" /\ last.op = "get_qmap" /\ last.outcome = "returned")
          => last.value.ndim = 2
    /\ (Propagated /\ last.ndim = 2)
          => \A i \in DOMAIN last.steps :
                last.steps[i].kind # "atoms" => last.steps[i].qmap.ndim = 2

----------------------------------------------------------------------------
(* The kernels and the field of the cache *)

\* C25: a sphere, spheroid or map kernel leaves the values of the field of
\* the cache as they were: the map kernel rescales and zeroes another array,
\* and a cache hit after the kernel returns the values from before.
C25_KernelKeepsField ==
    UnitDone("kernel_arrays") =>
        /\ unit.out.arrays.cache = unit.qmap
        /\ unit.out.hit = unit.qmap
        /\ unit.kernel = "map" =>
              unit.out.arrays.scaled =
                 [j \in DOMAIN unit.qmap |->
                    Zeroed(QmapScaled(unit.qmap[j], unit.dx))]

\* a map kernel that rescaled the field and zeroed a sample out of range
C25_Witness ==
    /\ UnitDone("kernel_arrays")
    /\ unit.kernel = "map"
    /\ unit.dx # 1
    /\ \E j \in DOMAIN unit.qmap :
          /\ QmapScaled(unit.qmap[j], unit.dx) # unit.qmap[j]
          /\ unit.out.arrays.scaled[j] # QmapScaled(unit.qmap[j], unit.dx)
    /\ unit.out.arrays.scaled # unit.out.hit

----------------------------------------------------------------------------
(* The order of sampling *)

\* C26: a propagation of valid dimensionality samples the source once, then
\* the particle set, then the detector once; inside the retry loop the source
\* has been sampled once whatever the number of attempts, and nothing else.
C26_SampledOnce ==
    /\ pc = "sampling" => shot.log = <<"source.get_next">>
    /\ (Propagated /\ last.ndim \in {2, 3}) =>
          /\ last.log = <<"source.get_next", "particles.get_next",
                          "detector.get_next">>
          /\ Cardinality({i \in DOMAIN last.log :
                             last.log[i] = "source.get_next"}) = 1
          /\ Cardinality({i \in DOMAIN last.log :
                             last.log[i] = "detector.get_next"}) = 1

\* a 3-D propagation has ended after as many empty attempts as the model
\* counts, with the three samplings behind it
C26_Witness ==
    /\ Propagated
    /\ last.ndim = 3
    /\ last.misses = MaxMisses
    /\ Len(last.log) = 3
    /\ last.log[1] = "source.get_next"

----------------------------------------------------------------------------
(* The objects of the external simulator *)

\* C27: when the evaluations of the atoms kernel have finished, every object
\* they obtained from the external simulator has been released.
C27_AllReleased ==
    UnitDone("simulator_objects") => unit.out.held = {}

====
